---------------------------- MODULE Spec2Model ----------------------------
(***************************************************************************)
(* A model of src/waku/message.rs: the Waku message envelope, its base64   *)
(* payload, the signature-prefixed body convention and its verification.   *)
(*                                                                         *)
(* Text is modelled as a sequence of character codes (ASCII), bytes as     *)
(* numbers in 0..255.  A call's outcome is a record                        *)
(*   [kind, bytes, flag, err]                                              *)
(* with kind "Ok" (value in bytes or flag), "Err" (a typed error the       *)
(* caller receives, named in err) or "Panic" (the thread unwinds with the  *)
(* message in err).                                                        *)
(***************************************************************************)
EXTENDS Integers, Sequences, FiniteSets, TLC

(***************************************************************************)
(* Bounds of the model.                                                    *)
(***************************************************************************)
MaxRawLen == 3
MaxValueLen == 1
NumKeys == 2
MaxClock == 2

(***************************************************************************)
(* Program constants.                                                      *)
(***************************************************************************)
WAKU_ENC_VERSION == 0
\* "proto"
WAKU_ENCODING == <<112, 114, 111, 116, 111>>
\* "dria"
WAKU_APP_NAME == <<100, 114, 105, 97>>
WAKU_EPHEMERAL == TRUE
SIGNATURE_SIZE == 130

(***************************************************************************)
(* Outcomes.                                                               *)
(***************************************************************************)
OkBytes(b) == [kind |-> "Ok", bytes |-> b, flag |-> FALSE, err |-> "" ]
OkBool(f) == [kind |-> "Ok", bytes |-> << >>, flag |-> f, err |-> "" ]
Err(e) == [kind |-> "Err", bytes |-> << >>, flag |-> FALSE, err |-> e ]
Panic(m) == [kind |-> "Panic", bytes |-> << >>, flag |-> FALSE, err |-> m ]
NoResult == [kind |-> "None", bytes |-> << >>, flag |-> FALSE, err |-> "" ]

IsOk(r) == r.kind = "Ok"
IsErr(r) == r.kind = "Err"
IsPanic(r) == r.kind = "Panic"

(***************************************************************************)
(* Slices.  Rust's &v[a..] and &v[..b] panic when the bound exceeds the    *)
(* length; the callers below test the bound before using these.            *)
(***************************************************************************)
SliceFrom(v, a) == [i \in 1..(Len(v) - a) |-> v[a + i]]
SliceTo(v, b) == [i \in 1..b |-> v[i]]

(***************************************************************************)
(* Base64, standard alphabet, padded (BASE64_STANDARD).                    *)
(***************************************************************************)
PadChar == 61

B64Char(i) ==
    IF i < 26 THEN 65 + i
    ELSE IF i < 52 THEN 97 + (i - 26)
    ELSE IF i < 62 THEN 48 + (i - 52)
    ELSE IF i = 62 THEN 43
    ELSE 47

\* The 6-bit value of a symbol, -1 for a character outside the alphabet.
B64Val(c) ==
    IF c >= 65 /\ c <= 90 THEN c - 65
    ELSE IF c >= 97 /\ c <= 122 THEN c - 97 + 26
    ELSE IF c >= 48 /\ c <= 57 THEN c - 48 + 52
    ELSE IF c = 43 THEN 62
    ELSE IF c = 47 THEN 63
    ELSE -1

Pow64(j) == IF j = 0 THEN 1 ELSE IF j = 1 THEN 64 ELSE IF j = 2 THEN 4096 ELSE 262144
Pow256(j) == IF j = 0 THEN 1 ELSE IF j = 1 THEN 256 ELSE 65536

ByteAt(b, i) == IF i <= Len(b) THEN b[i] ELSE 0

\* The 24-bit group k (from 0) of the input.
Group24(b, k) ==
    ByteAt(b, 3 * k + 1) * 65536 + ByteAt(b, 3 * k + 2) * 256 + ByteAt(b, 3 * k + 3)

Base64Encode(b) ==
    LET n == Len(b)
        groups == (n + 2) \div 3
    IN  [p \in 1..(4 * groups) |->
            LET k == (p - 1) \div 4
                j == (p - 1) % 4
            IN  IF j = 2 /\ 3 * k + 2 > n THEN PadChar
                ELSE IF j = 3 /\ 3 * k + 3 > n THEN PadChar
                ELSE B64Char((Group24(b, k) \div Pow64(3 - j)) % 64)]

\* Number of trailing '=' of a string, at most 3 counted.
PadCount(s) ==
    LET n == Len(s)
    IN  IF n >= 1 /\ s[n] = PadChar
        THEN IF n >= 2 /\ s[n - 1] = PadChar
             THEN IF n >= 3 /\ s[n - 2] = PadChar THEN 3 ELSE 2
             ELSE 1
        ELSE 0

\* The decoder accepts exactly the canonical padded encodings: length a
\* multiple of 4, symbols of the alphabet, at most two '=' and only at the
\* end, and no set bits in the part of the last symbol that is discarded.
Base64Valid(s) ==
    LET n == Len(s)
        pad == PadCount(s)
    IN  /\ n % 4 = 0
        /\ pad <= 2
        /\ \A i \in 1..(n - pad) : B64Val(s[i]) >= 0
        /\ pad = 1 => B64Val(s[n - 1]) % 4 = 0
        /\ pad = 2 => B64Val(s[n - 2]) % 16 = 0

SextetAt(s, i) == IF s[i] = PadChar THEN 0 ELSE B64Val(s[i])

Sextets24(s, k) ==
    SextetAt(s, 4 * k + 1) * 262144 + SextetAt(s, 4 * k + 2) * 4096
        + SextetAt(s, 4 * k + 3) * 64 + SextetAt(s, 4 * k + 4)

Base64Decode(s) ==
    IF ~Base64Valid(s) THEN Err("Base64DecodeError")
    ELSE OkBytes([q \in 1..(3 * (Len(s) \div 4) - PadCount(s)) |->
                    LET k == (q - 1) \div 3
                        j == (q - 1) % 3
                    IN  (Sextets24(s, k) \div Pow256(2 - j)) % 256])

(***************************************************************************)
(* Hex (the hex crate): encode is lower case, decode accepts both cases    *)
(* and fails on an odd length or a character that is no hex digit.         *)
(***************************************************************************)
HexDigit(v) == IF v < 10 THEN 48 + v ELSE 97 + (v - 10)

HexVal(c) ==
    IF c >= 48 /\ c <= 57 THEN c - 48
    ELSE IF c >= 97 /\ c <= 102 THEN c - 97 + 10
    ELSE IF c >= 65 /\ c <= 70 THEN c - 65 + 10
    ELSE -1

HexEncode(b) ==
    [p \in 1..(2 * Len(b)) |->
        LET x == b[(p + 1) \div 2]
        IN  IF p % 2 = 1 THEN HexDigit(x \div 16) ELSE HexDigit(x % 16)]

HexValid(s) == Len(s) % 2 = 0 /\ \A i \in 1..Len(s) : HexVal(s[i]) >= 0

HexDecode(s) ==
    IF ~HexValid(s) THEN Err("HexDecodeError")
    ELSE OkBytes([q \in 1..(Len(s) \div 2) |->
                    HexVal(s[2 * q - 1]) * 16 + HexVal(s[2 * q])])

(***************************************************************************)
(* serde_json for the body type of the tests, struct TestStruct { hello:   *)
(* String }.  A value is the text of its field.  to_vec writes             *)
(* {"hello":"..."} with '"' and '\' escaped; from_slice reads that form    *)
(* back, undoing the escapes, and fails on anything else (input that is    *)
(* cut short, has another key, trailing characters or a control character).*)
(***************************************************************************)
Quote == 34
Backslash == 92

\* {"hello":"
JsonHead == <<123, 34, 104, 101, 108, 108, 111, 34, 58, 34>>
\* "}
JsonTail == <<34, 125>>

RECURSIVE JsonEscape(_)
JsonEscape(v) ==
    IF v = << >> THEN << >>
    ELSE IF Head(v) = Quote \/ Head(v) = Backslash
         THEN <<Backslash, Head(v)>> \o JsonEscape(Tail(v))
         ELSE <<Head(v)>> \o JsonEscape(Tail(v))

to_vec(v) == JsonHead \o JsonEscape(v) \o JsonTail

\* Reads the string that starts at s[i] up to its closing quote, which must
\* be followed by '}' and the end of input.
RECURSIVE JsonReadString(_, _, _)
JsonReadString(s, i, acc) ==
    IF i > Len(s) THEN Err("DeserializationError")
    ELSE IF s[i] = Quote
         THEN IF i + 1 = Len(s) /\ s[i + 1] = 125
              THEN OkBytes(acc)
              ELSE Err("DeserializationError")
    ELSE IF s[i] = Backslash
         THEN IF i + 1 <= Len(s) /\ (s[i + 1] = Quote \/ s[i + 1] = Backslash)
              THEN JsonReadString(s, i + 2, Append(acc, s[i + 1]))
              ELSE Err("DeserializationError")
    ELSE IF s[i] < 32 \/ s[i] > 127 THEN Err("DeserializationError")
    ELSE JsonReadString(s, i + 1, Append(acc, s[i]))

from_slice(s) ==
    IF Len(s) < Len(JsonHead) \/ SliceTo(s, Len(JsonHead)) # JsonHead
    THEN Err("DeserializationError")
    ELSE JsonReadString(s, Len(JsonHead) + 1, << >>)

(***************************************************************************)
(* The digest of the body: a function from byte strings to 32 bytes.  The  *)
(* function here is a position-weighted checksum; the model uses only that *)
(* it is a function of the bytes it is given.                              *)
(***************************************************************************)
DIGEST_SIZE == 32

RECURSIVE WeightedSum(_, _, _)
WeightedSum(b, j, w) ==
    IF j > Len(b) THEN 0 ELSE b[j] * (j + w) + WeightedSum(b, j + 1, w)

sha256hash(b) ==
    [i \in 1..DIGEST_SIZE |-> (Len(b) * 31 + i * 7 + WeightedSum(b, 1, i)) % 256]

(***************************************************************************)
(* libsecp256k1, idealised.  A signature is 64 bytes, r then s, each a     *)
(* 32-byte big-endian scalar.  Parsing is as in the library: the length    *)
(* must be 64 and neither scalar may reach the order of the curve.         *)
(* Signing and verification are the ideal functionality: sign is a         *)
(* function of the digest and the secret key, and verify accepts exactly   *)
(* the signature that sign produces for the digest under the secret key of *)
(* the public key it is given.                                             *)
(***************************************************************************)
SCALAR_SIZE == 32

\* The order of the secp256k1 group, big-endian.
CurveOrder ==
    <<255, 255, 255, 255, 255, 255, 255, 255, 255, 255, 255, 255, 255, 255, 255, 254,
      186, 174, 220, 230, 175, 72, 160, 59, 191, 210, 94, 140, 208, 54, 65, 65>>

\* Whether the big-endian scalar x is at least the order of the group.
ScalarOverflow(x) ==
    LET differ == {i \in 1..SCALAR_SIZE : x[i] # CurveOrder[i]}
    IN  IF differ = {} THEN TRUE
        ELSE LET d == CHOOSE i \in differ : \A k \in differ : i <= k
             IN  x[d] > CurveOrder[d]

ScalarIsZero(x) == \A i \in 1..SCALAR_SIZE : x[i] = 0

SigR(sig) == SliceTo(sig, SCALAR_SIZE)
SigS(sig) == SliceFrom(sig, SCALAR_SIZE)

parse_standard_slice(p) ==
    IF Len(p) # 2 * SCALAR_SIZE THEN Err("InvalidInputLength")
    ELSE IF ScalarOverflow(SigR(p)) \/ ScalarOverflow(SigS(p)) THEN Err("InvalidSignature")
    ELSE OkBytes(p)

SecretKeys == 1..NumKeys

from_secret_key(sk) == (sk * 7) % 251

PublicKeys == {from_secret_key(sk) : sk \in SecretKeys}

SecretKeyOf(pk) == CHOOSE sk \in SecretKeys : from_secret_key(sk) = pk

\* The 64-byte serialization of the signature of a digest.
sign(digest, sk) ==
    LET r == [i \in 1..SCALAR_SIZE |-> (17 * sk + 3 * i) % 255]
    IN  r \o [i \in 1..SCALAR_SIZE |-> (digest[i] + sk * r[i] + i) % 255]

\* The recovery id that sign returns with the signature, serialized.
sign_recid(digest, sk) == (digest[DIGEST_SIZE] + sk) % 4

verify(digest, sig, pk) ==
    /\ ~ScalarIsZero(SigR(sig))
    /\ ~ScalarIsZero(SigS(sig))
    /\ sig = sign(digest, SecretKeyOf(pk))

(***************************************************************************)
(* The envelope.                                                           *)
(***************************************************************************)
Slash == 47

\* Display of a u8: its decimal digits.
RECURSIVE FormatU8(_)
FormatU8(n) == IF n < 10 THEN <<48 + n>> ELSE FormatU8(n \div 10) \o <<48 + (n % 10)>>

\* Variant: the topic is formatted without the leading separator.
create_content_topic_NoLead(topic) ==
    WAKU_APP_NAME \o <<Slash>> \o FormatU8(WAKU_ENC_VERSION)
        \o <<Slash>> \o topic \o <<Slash>> \o WAKU_ENCODING

create_content_topic(topic) ==
    <<Slash>> \o WAKU_APP_NAME \o <<Slash>> \o FormatU8(WAKU_ENC_VERSION)
        \o <<Slash>> \o topic \o <<Slash>> \o WAKU_ENCODING

\* Variant: the payload is encoded with the unpadded engine.
new_NoPad(payload, topic, now) ==
    [payload |-> SelectSeq(Base64Encode(payload), LAMBDA c : c # PadChar),
     content_topic |-> create_content_topic(topic),
     version |-> WAKU_ENC_VERSION,
     timestamp |-> now,
     ephemeral |-> WAKU_EPHEMERAL]

\* WakuMessage::new, with the value the time source returns.
new(payload, topic, now) ==
    [payload |-> Base64Encode(payload),
     content_topic |-> create_content_topic(topic),
     version |-> WAKU_ENC_VERSION,
     timestamp |-> now,
     ephemeral |-> WAKU_EPHEMERAL]

decode_payload(m) == Base64Decode(m.payload)

\* Variant: the body is taken after the 128 characters of the signature.
parse_payload_Skip128(m, signed) ==
    LET payload == decode_payload(m)
    IN  IF IsErr(payload) THEN Err(payload.err)
        ELSE IF signed /\ Len(payload.bytes) < SIGNATURE_SIZE - 2
             THEN Panic("range start index out of range")
        ELSE from_slice(IF signed THEN SliceFrom(payload.bytes, SIGNATURE_SIZE - 2)
                        ELSE payload.bytes)

parse_payload(m, signed) ==
    LET payload == decode_payload(m)
    IN  IF IsErr(payload) THEN Err(payload.err)
        ELSE IF signed /\ Len(payload.bytes) < SIGNATURE_SIZE
             THEN Panic("range start index out of range")
        ELSE from_slice(IF signed THEN SliceFrom(payload.bytes, SIGNATURE_SIZE)
                        ELSE payload.bytes)

\* The rest of is_signed once the payload is decoded, with the end of the
\* hex signature and the start of the body as parameters.
VerifyPrefixed(bytes, sigEnd, bodyStart, public_key) ==
    IF Len(bytes) < sigEnd \/ Len(bytes) < bodyStart
    THEN Panic("range index out of range")
    ELSE LET decoded == HexDecode(SliceTo(bytes, sigEnd))
         IN  IF IsErr(decoded) THEN Panic("could not decode")
             ELSE IF IsErr(parse_standard_slice(decoded.bytes))
                  THEN Panic("could not parse")
             ELSE OkBool(verify(sha256hash(SliceFrom(bytes, bodyStart)),
                                decoded.bytes, public_key))

\* Variant: the digest is taken over everything after the signature, the
\* recovery id included.
is_signed_BodyAt128(m, public_key) ==
    LET payload == decode_payload(m)
    IN  IF IsErr(payload) THEN Err(payload.err)
        ELSE VerifyPrefixed(payload.bytes, SIGNATURE_SIZE - 2, SIGNATURE_SIZE - 2,
                            public_key)

\* Variant: the recovery id is read with the signature; a recovery id in
\* hex is then dropped before the signature is parsed.
is_signed_ReadsRecId(m, public_key) ==
    LET payload == decode_payload(m)
    IN  IF IsErr(payload) THEN Err(payload.err)
        ELSE IF Len(payload.bytes) < SIGNATURE_SIZE
             THEN Panic("range index out of range")
        ELSE IF IsErr(HexDecode(SliceTo(payload.bytes, SIGNATURE_SIZE)))
             THEN Panic("could not decode")
        ELSE VerifyPrefixed(payload.bytes, SIGNATURE_SIZE - 2, SIGNATURE_SIZE,
                            public_key)

\* Variant: the payload is decoded with expect, like the signature.
is_signed_Expect(m, public_key) ==
    LET payload == decode_payload(m)
    IN  IF IsErr(payload) THEN Panic("could not decode")
        ELSE VerifyPrefixed(payload.bytes, SIGNATURE_SIZE - 2, SIGNATURE_SIZE,
                            public_key)

is_signed(m, public_key) ==
    LET payload == decode_payload(m)
    IN  IF IsErr(payload) THEN Err(payload.err)
        ELSE IF Len(payload.bytes) < SIGNATURE_SIZE - 2
                \/ Len(payload.bytes) < SIGNATURE_SIZE
             THEN Panic("range index out of range")
        ELSE LET signature == SliceTo(payload.bytes, SIGNATURE_SIZE - 2)
                 body == SliceFrom(payload.bytes, SIGNATURE_SIZE)
                 decoded == HexDecode(signature)
             IN  IF IsErr(decoded) THEN Panic("could not decode")
                 ELSE IF IsErr(parse_standard_slice(decoded.bytes))
                      THEN Panic("could not parse")
                 ELSE OkBool(verify(sha256hash(body), decoded.bytes, public_key))

(***************************************************************************)
(* The wire form (serde, camelCase names): ephemeral is skipped when       *)
(* serializing; version, timestamp and ephemeral take their default when   *)
(* the record read has no such field.  A wire record is a function from    *)
(* the field names present to their values.                                *)
(***************************************************************************)
U8_MAX == 255

\* Variant: ephemeral is written like the other fields.
Serialize_WithEphemeral(m) ==
    [payload |-> m.payload,
     contentTopic |-> m.content_topic,
     version |-> m.version,
     timestamp |-> m.timestamp,
     ephemeral |-> m.ephemeral]

Serialize(m) ==
    [payload |-> m.payload,
     contentTopic |-> m.content_topic,
     version |-> m.version,
     timestamp |-> m.timestamp]

DeserializeOk(w) ==
    /\ "payload" \in DOMAIN w
    /\ "contentTopic" \in DOMAIN w
    /\ "version" \in DOMAIN w => w.version \in 0..U8_MAX

Deserialize(w) ==
    [payload |-> w.payload,
     content_topic |-> w.contentTopic,
     version |-> IF "version" \in DOMAIN w THEN w.version ELSE 0,
     timestamp |-> IF "timestamp" \in DOMAIN w THEN w.timestamp ELSE 0,
     ephemeral |-> IF "ephemeral" \in DOMAIN w THEN w.ephemeral ELSE FALSE]

(***************************************************************************)
(* Inputs.                                                                 *)
(***************************************************************************)
SeqsUpTo(S, n) == UNION {[1..k -> S] : k \in 0..n}

ByteSamples == {0, 97, 255}
RawPayloads == SeqsUpTo(ByteSamples, MaxRawLen)

\* 'a', '"' and '\'
ValueChars == {97, Quote, Backslash}
Values == SeqsUpTo(ValueChars, MaxValueLen)

\* "test-topic"
TOPIC == <<116, 101, 115, 116, 45, 116, 111, 112, 105, 99>>

\* "", "a/b", "test-topic"
Topics == {<< >>, <<97, 47, 98>>, TOPIC}

Times == 1..MaxClock

\* The payload of the signed test: hex(signature) || hex(recovery id) || body.
Pack(sig, recid, body) == HexEncode(sig) \o HexEncode(<<recid>>) \o body

SignAndPack(v, sk) ==
    LET body == to_vec(v)
        digest == sha256hash(body)
    IN  Pack(sign(digest, sk), sign_recid(digest, sk), body)

UpperHex(c) == IF c >= 97 /\ c <= 102 THEN c - 32 ELSE c

\* Payloads a sender that does not follow the convention can produce, made
\* from the signed payload of the value "a" under the first key.
CraftedPayloads ==
    LET p == SignAndPack(<<97>>, 1)
        n == Len(p)
    IN  { SliceTo(p, 127), SliceTo(p, 128), SliceTo(p, 129), SliceTo(p, 130),
          [p EXCEPT ![5] = 122],
          [i \in 1..n |-> IF i <= 128 THEN 102 ELSE p[i]],
          [i \in 1..n |-> IF i <= 128 THEN 48 ELSE p[i]],
          [p EXCEPT ![129] = 122, ![130] = 0],
          [i \in 1..n |-> IF i <= 128 THEN UpperHex(p[i]) ELSE p[i]],
          SliceTo(p, 130) \o to_vec(<< >>),
          SliceTo(p, 128) \o to_vec(<<97>>) }

\* Strings that are no padded base64: "aGk" (a length that is no multiple of
\* four), "aGl=" (set bits after the last byte), "a=Gk" and "aGk=aGk=" (padding
\* inside), "!!!!" (no symbols of the alphabet), "a===" (too much padding) and
\* a signed payload cut after 175 characters.
InvalidBase64Samples ==
    { <<97, 71, 107>>, <<97, 71, 108, 61>>, <<97, 61, 71, 107>>, <<33, 33, 33, 33>>,
      <<97, 71, 107, 61, 97, 71, 107, 61>>, <<97, 61, 61, 61>>,
      SliceTo(Base64Encode(SignAndPack(<<97>>, 1)), 175) }

\* Payload strings as they may arrive: "aGk=", a signed payload whose first
\* byte was changed, and the strings above.
WirePayloads ==
    { <<97, 71, 107, 61>>,
      Base64Encode([SignAndPack(<<97>>, 1) EXCEPT ![1] = 255]) }
        \cup InvalidBase64Samples

WireTopic == create_content_topic(TOPIC)

WireRecords ==
    UNION { { [payload |-> p, contentTopic |-> WireTopic],
              [payload |-> p, contentTopic |-> WireTopic, version |-> 0,
               timestamp |-> 1, ephemeral |-> TRUE] } : p \in WirePayloads }
      \cup { [payload |-> <<97, 71, 107, 61>>],
             [contentTopic |-> WireTopic, version |-> 0],
             [payload |-> <<97, 71, 107, 61>>, contentTopic |-> WireTopic,
              version |-> 256] }

(***************************************************************************)
(* State.                                                                  *)
(*   msg       the envelope at hand                                        *)
(*   origin    how msg was made: the arguments of new, or "wire"           *)
(*   wire      the last record serialized or received                      *)
(*   sent      the envelope that was serialized into wire                  *)
(*   lastCall  the last call on msg, res its outcome                       *)
(*   verified  whether is_signed has been called on msg                    *)
(*   alive     FALSE once a call has panicked                              *)
(***************************************************************************)
VARIABLES msg, origin, wire, sent, lastCall, res, verified, alive

vars == <<msg, origin, wire, sent, lastCall, res, verified, alive>>

NoMsg ==
    [payload |-> << >>, content_topic |-> << >>, version |-> 0, timestamp |-> 0,
     ephemeral |-> FALSE]

NoWire == [none |-> TRUE]

Origin(how, bytes, value, sk, topic, now) ==
    [how |-> how, bytes |-> bytes, value |-> value, sk |-> sk, topic |-> topic,
     now |-> now, viaWire |-> FALSE]

NoCall == [op |-> "none", signed |-> FALSE, pk |-> 0]

Init ==
    /\ msg = NoMsg
    /\ origin = Origin("none", << >>, << >>, 0, << >>, 0)
    /\ wire = NoWire
    /\ sent = NoMsg
    /\ lastCall = NoCall
    /\ res = NoResult
    /\ verified = FALSE
    /\ alive = TRUE

HaveMsg == origin.how # "none"

\* A producer builds an envelope with WakuMessage::new.
Build(how, bytes, value, sk, topic, now) ==
    /\ alive
    /\ ~HaveMsg
    /\ msg' = new(bytes, topic, now)
    /\ origin' = Origin(how, bytes, value, sk, topic, now)
    /\ wire' = NoWire
    /\ sent' = NoMsg
    /\ lastCall' = NoCall
    /\ res' = NoResult
    /\ verified' = FALSE
    /\ UNCHANGED alive

NewRaw ==
    \E b \in RawPayloads, t \in Topics, now \in Times :
        Build("raw", b, << >>, 0, t, now)

NewUnsigned ==
    \E v \in Values, t \in Topics, now \in Times :
        Build("unsigned", to_vec(v), v, 0, t, now)

NewSigned ==
    \E v \in Values, sk \in SecretKeys, t \in Topics, now \in Times :
        Build("signed", SignAndPack(v, sk), v, sk, t, now)

NewCrafted ==
    \E b \in CraftedPayloads, now \in Times :
        Build("crafted", b, << >>, 0, TOPIC, now)

\* The envelope is serialized, carried and deserialized.
Transport ==
    /\ alive
    /\ HaveMsg
    /\ ~origin.viaWire
    /\ wire' = Serialize(msg)
    /\ sent' = msg
    /\ msg' = Deserialize(wire')
    /\ origin' = [origin EXCEPT !.viaWire = TRUE]
    /\ lastCall' = NoCall
    /\ res' = NoResult
    /\ verified' = FALSE
    /\ UNCHANGED alive

\* A record arrives from the network and is deserialized.
Receive ==
    \E w \in WireRecords :
        /\ alive
        /\ ~HaveMsg
        /\ wire' = w
        /\ sent' = NoMsg
        /\ lastCall' = [op |-> "deserialize", signed |-> FALSE, pk |-> 0]
        /\ verified' = FALSE
        /\ IF DeserializeOk(w)
           THEN /\ msg' = Deserialize(w)
                /\ origin' = [Origin("wire", << >>, << >>, 0, << >>, 0)
                                EXCEPT !.viaWire = TRUE]
                /\ res' = OkBool(TRUE)
           ELSE /\ msg' = NoMsg
                /\ origin' = Origin("none", << >>, << >>, 0, << >>, 0)
                /\ res' = Err("DeserializationError")
        /\ UNCHANGED alive

\* A call on the envelope: it takes &self, and a panic ends the thread.
Call(call, outcome) ==
    /\ alive
    /\ HaveMsg
    /\ lastCall' = call
    /\ res' = outcome
    /\ alive' = ~IsPanic(outcome)
    /\ verified' = (verified \/ call.op = "is_signed")
    /\ UNCHANGED <<msg, origin, wire, sent>>

DecodePayload ==
    Call([op |-> "decode_payload", signed |-> FALSE, pk |-> 0], decode_payload(msg))

ParsePayload ==
    \E signed \in BOOLEAN :
        Call([op |-> "parse_payload", signed |-> signed, pk |-> 0],
             parse_payload(msg, signed))

IsSigned ==
    \E pk \in PublicKeys :
        Call([op |-> "is_signed", signed |-> TRUE, pk |-> pk], is_signed(msg, pk))

\* The envelope is dropped once the consumer is done with it.
Discard ==
    /\ alive
    /\ HaveMsg
    /\ msg' = NoMsg
    /\ origin' = Origin("none", << >>, << >>, 0, << >>, 0)
    /\ wire' = NoWire
    /\ sent' = NoMsg
    /\ lastCall' = NoCall
    /\ res' = NoResult
    /\ verified' = FALSE
    /\ UNCHANGED alive

Next ==
    \/ NewRaw
    \/ NewUnsigned
    \/ NewSigned
    \/ NewCrafted
    \/ Transport
    \/ Receive
    \/ DecodePayload
    \/ ParsePayload
    \/ IsSigned
    \/ Discard

Spec == Init /\ [][Next]_vars

(***************************************************************************)
(* Properties.                                                             *)
(***************************************************************************)
BuiltByNew == origin.how \in {"raw", "unsigned", "signed", "crafted"}

EnvelopeCalls == {"decode_payload", "parse_payload", "is_signed"}

\* A call on the envelope leaves the envelope as it was.
CallKeepsEnvelope == lastCall'.op \in EnvelopeCalls => msg' = msg

\* C1: decode_payload on an envelope made by new(b, t) succeeds and returns
\* exactly b, for every byte sequence b, the empty one included, and every t.
C1_DecodeRoundTrip ==
    (BuiltByNew /\ lastCall.op = "decode_payload") => res = OkBytes(origin.bytes)

C1_Witness ==
    /\ origin.how = "raw"
    /\ lastCall.op = "decode_payload"
    /\ Len(origin.bytes) % 3 = 1
    /\ origin.topic # << >>
    /\ res = OkBytes(origin.bytes)

\* C2: when a body is signed with the secret key of A, packed as
\* hex(signature) || hex(recovery id) || body and wrapped with new, then
\* is_signed with the public key of B returns Ok(true) if B = A and Ok(false)
\* otherwise: a signature that does not match is not an error or a panic.
C2_SignedVerifiesOnlyUnderSigner ==
    (origin.how = "signed" /\ lastCall.op = "is_signed")
        => res = OkBool(lastCall.pk = from_secret_key(origin.sk))

C2_Witness ==
    /\ origin.how = "signed"
    /\ lastCall.op = "is_signed"
    /\ lastCall.pk # from_secret_key(origin.sk)
    /\ res = OkBool(FALSE)
    /\ alive

\* What parse_payload returns, by the way the envelope was made.
C3_ParseResult ==
    lastCall.op = "parse_payload" =>
        /\ (origin.how = "unsigned" /\ ~lastCall.signed) => res = OkBytes(origin.value)
        /\ (origin.how = "signed" /\ lastCall.signed) => res = OkBytes(origin.value)
        /\ (BuiltByNew /\ lastCall.signed /\ Len(origin.bytes) >= 130)
              => res = from_slice(SliceFrom(origin.bytes, 130))
        /\ (BuiltByNew /\ ~lastCall.signed) => res = from_slice(origin.bytes)

\* C3: parse_payload returns the value v the envelope was made from: the whole
\* payload when signed is false, the bytes after the first 130 when signed is
\* true, whether or not is_signed was called before; neither call changes the
\* envelope.
C3_ParseReturnsValue == []C3_ParseResult /\ [][CallKeepsEnvelope]_vars

C3_Witness ==
    /\ origin.how = "signed"
    /\ lastCall.op = "parse_payload"
    /\ lastCall.signed
    /\ verified
    /\ origin.value # << >>
    /\ res = OkBytes(origin.value)

\* C4: parse_payload(signed = true) on a payload that is valid base64 of fewer
\* than 130 bytes returns a typed error and does not panic.
C4_ShortSignedPayloadIsTypedError ==
    ( /\ lastCall.op = "parse_payload"
      /\ lastCall.signed
      /\ IsOk(decode_payload(msg))
      /\ Len(decode_payload(msg).bytes) < 130 )
        => (IsErr(res) /\ alive)

\* C5: is_signed never panics: for every envelope and public key it returns
\* Ok(bool) or a typed error.
C5_IsSignedIsTotal ==
    lastCall.op = "is_signed" => ((IsOk(res) \/ IsErr(res)) /\ alive)

\* What a call returns on one of the malformed payload strings.
C6_DecodeErrorResult ==
    (lastCall.op \in EnvelopeCalls /\ msg.payload \in InvalidBase64Samples)
        => (res = Err("Base64DecodeError") /\ alive)

\* C6: on an envelope whose payload string is not valid padded base64,
\* decode_payload, parse_payload (signed or not) and is_signed return a decode
\* error, do not panic and leave the envelope unchanged.
C6_InvalidBase64IsDecodeError == []C6_DecodeErrorResult /\ [][CallKeepsEnvelope]_vars

C6_Witness ==
    /\ origin.how = "wire"
    /\ msg.payload = <<97, 71, 108, 61>>
    /\ lastCall.op = "is_signed"
    /\ res = Err("Base64DecodeError")
    /\ alive

\* C7: an envelope made by new(b, t) has content_topic "/dria/0/" + t + "/proto",
\* version 0, ephemeral true and the timestamp the time source returned, which is
\* greater than 0; these fields are the same for every b.
C7_NewFields ==
    (BuiltByNew /\ ~origin.viaWire) =>
        /\ msg.content_topic
              = <<47, 100, 114, 105, 97, 47, 48, 47>> \o origin.topic
                    \o <<47, 112, 114, 111, 116, 111>>
        /\ msg.content_topic = create_content_topic(origin.topic)
        /\ msg.version = 0
        /\ msg.ephemeral = TRUE
        /\ msg.timestamp = origin.now
        /\ msg.timestamp > 0
        /\ \A b \in {<< >>, <<255>>, to_vec(<<97>>)} :
              [new(b, origin.topic, origin.now) EXCEPT !.payload = msg.payload] = msg

\* "/dria/0/test-topic/proto"
C7_Witness ==
    /\ origin.how = "unsigned"
    /\ ~origin.viaWire
    /\ msg.content_topic
          = <<47, 100, 114, 105, 97, 47, 48, 47, 116, 101, 115, 116, 45, 116, 111, 112,
              105, 99, 47, 112, 114, 111, 116, 111>>
    /\ msg.timestamp = origin.now

\* The grammar /<app-name>/<version-digit>/<topic>/<encoding>.
MatchesTopicGrammar(s) ==
    /\ Len(s) >= 1
    /\ s[1] = Slash
    /\ s[Len(s)] # Slash
    /\ Cardinality({i \in 1..Len(s) : s[i] = Slash}) = 4
    /\ \A i \in 1..(Len(s) - 1) : ~(s[i] = Slash /\ s[i + 1] = Slash)

\* C8: the content_topic of every envelope made by new, for any topic string,
\* consists of exactly four non-empty segments, each introduced by one '/'.
C8_ContentTopicGrammar == BuiltByNew => MatchesTopicGrammar(msg.content_topic)

\* C9: serializing never writes ephemeral; a record without ephemeral, version
\* or timestamp deserializes to ephemeral false, version 0, timestamp 0; an
\* envelope made by new comes back from serialize and deserialize with the same
\* payload, content_topic, version and timestamp, and ephemeral false.
C9_WireRoundTrip ==
    /\ (BuiltByNew /\ origin.viaWire) =>
          /\ DOMAIN wire = {"payload", "contentTopic", "version", "timestamp"}
          /\ sent = new(origin.bytes, origin.topic, origin.now)
          /\ msg.payload = sent.payload
          /\ msg.content_topic = sent.content_topic
          /\ msg.version = sent.version
          /\ msg.timestamp = sent.timestamp
          /\ msg.ephemeral = FALSE
    /\ origin.how = "wire" =>
          /\ "ephemeral" \notin DOMAIN wire => msg.ephemeral = FALSE
          /\ "version" \notin DOMAIN wire => msg.version = 0
          /\ "timestamp" \notin DOMAIN wire => msg.timestamp = 0
          /\ msg.payload = wire.payload
          /\ msg.content_topic = wire.contentTopic

C9_Witness ==
    /\ origin.how = "signed"
    /\ origin.viaWire
    /\ sent.ephemeral = TRUE
    /\ msg.ephemeral = FALSE
    /\ msg.timestamp = sent.timestamp
    /\ lastCall.op = "decode_payload"
    /\ res = OkBytes(origin.bytes)

\* Bytes to put at offsets 128 and 129: '0', 'z' and 0xff.
RecIdSamples == {48, 122, 255}

WithRecId(m, x, y) ==
    [m EXCEPT !.payload =
        Base64Encode([decode_payload(m).bytes EXCEPT ![129] = x, ![130] = y])]

\* C10: is_signed does not read the recovery id: two envelopes whose decoded
\* payloads have at least 130 bytes and differ only at offsets 128 and 129 get
\* the same result under every public key, also when those two bytes are no hex
\* digits.
C10_RecoveryIdIgnored ==
    ( /\ lastCall.op = "is_signed"
      /\ IsOk(decode_payload(msg))
      /\ Len(decode_payload(msg).bytes) >= 130 )
        => \A x, y \in RecIdSamples :
              is_signed(WithRecId(msg, x, y), lastCall.pk) = res

C10_Witness ==
    /\ origin.how = "crafted"
    /\ lastCall.op = "is_signed"
    /\ Len(origin.bytes) > 130
    /\ origin.bytes[129] = 122
    /\ res = OkBool(TRUE)
==========================================================================
